---- MODULE Spec2Model ----
(***************************************************************************)
(* Model of the CAB image index of semoPDFwatermark:                       *)
(*   src/cab/image_index.py  (ImageIndex, _sanitize_filename,              *)
(*                            _resolve_image_path)                         *)
(* One ImageIndex instance, its two persisted files, the catalog and the   *)
(* image directory that rebuild_index reads.                               *)
(*                                                                         *)
(* Strings are sequences of one-character tokens.  Characters outside      *)
(* ASCII are written by their code point ("U+FF0C" is the full-width       *)
(* comma).                                                                 *)
(***************************************************************************)
EXTENDS Integers, Sequences, FiniteSets, TLC

VARIABLES
  index,          \* self.index: the FAISS IndexFlatIP held in memory
  metadata,       \* self.metadata: list of (filename, answer)
  index_file,     \* content of the file at self.index_path
  metadata_file,  \* content of the file at self.metadata_path
  questions_csv,  \* the catalog rebuild_index reads
  images_dir,     \* the image directory rebuild_index reads (os.listdir order)
  extract,        \* what ImageFeatureExtractor.extract_features gives per path
  pdf_files,      \* the PDF files PDFWatermarker reads and writes, by path
  last,           \* the call that was made last and whether it raised
  ret             \* the value that call returned

vars == <<index, metadata, index_file, metadata_file,
          questions_csv, images_dir, extract, pdf_files, last, ret>>

None == "None"

(***************************************************************************)
(* Bounds                                                                  *)
(***************************************************************************)
MaxLen  == 4     \* longest raw filename tried on _sanitize_filename
MaxVecs == 2     \* add_image is called while index and metadata are shorter
MaxRows == 2     \* longest catalog
MaxTopK == 2     \* largest top_k passed to search_similar
Unit    == 10    \* the fixed-point number that stands for 1.0
MaxPages == 2    \* most pages of an input PDF
MaxMarks == 2    \* add_watermark is called while its input holds fewer watermarks

(***************************************************************************)
(* Strings                                                                 *)
(***************************************************************************)
Min(a, b) == IF a <= b THEN a ELSE b
Max(a, b) == IF a >= b THEN a ELSE b

SeqsUpTo(S, n) == UNION {[1..k -> S] : k \in 0..n}

\* characters str.strip() removes (after NFKC): space and tab
Whitespace == {" ", "TAB"}
\* characters of name.strip('"\'')
Quotes == {"DQUOTE", "'"}
\* the list of line 31
TrailingPunct == {"U+FF0C", "U+3002", "U+FF1B", ",", ";", " "}

\* unicodedata.normalize('NFKC', c) for one character
NFKCChar(c) ==
  CASE c = "U+FF0C" -> ","
    [] c = "U+FF1B" -> ";"
    [] c = "U+3000" -> " "
    [] OTHER -> c

NFKC(s) == [i \in 1..Len(s) |-> NFKCChar(s[i])]

RECURSIVE LStrip(_, _)
LStrip(s, chars) ==
  IF s # <<>> /\ Head(s) \in chars THEN LStrip(Tail(s), chars) ELSE s

RECURSIVE RStrip(_, _)
RStrip(s, chars) ==
  IF s # <<>> /\ s[Len(s)] \in chars
  THEN RStrip(SubSeq(s, 1, Len(s) - 1), chars) ELSE s

\* str.strip(chars)
Strip(s, chars) == RStrip(LStrip(s, chars), chars)

\* index of the last occurrence of c in s, 0 when there is none (str.rfind)
RFind(s, c) ==
  LET I == {i \in 1..Len(s) : s[i] = c}
  IN  IF I = {} THEN 0 ELSE CHOOSE i \in I : \A j \in I : j <= i

\* posixpath.basename
Basename(s) == SubSeq(s, RFind(s, "/") + 1, Len(s))

\* _sanitize_filename
_sanitize_filename(raw_name) ==
  LET n1 == NFKC(raw_name)
      n2 == Strip(n1, Whitespace)
      n3 == Strip(n2, Quotes)
      n4 == RStrip(n3, TrailingPunct)   \* the while loop of lines 31-32
  IN  Basename(n4)

\* str.lower() for one character
LowerChar(c) ==
  CASE c = "A" -> "a"
    [] c = "B" -> "b"
    [] c = "J" -> "j"
    [] c = "P" -> "p"
    [] OTHER -> c

Lower(s) == [i \in 1..Len(s) |-> LowerChar(s[i])]

\* posixpath.splitext of a name without directory part: the extension starts
\* at the last dot unless only dots precede it
SplitExt(p) ==
  LET dot == RFind(p, ".")
  IN  IF dot > 0 /\ \E i \in 1..(dot - 1) : p[i] # "."
      THEN <<SubSeq(p, 1, dot - 1), SubSeq(p, dot, Len(p))>>
      ELSE <<p, <<>>>>

StartsWith(s, pre) == Len(s) >= Len(pre) /\ SubSeq(s, 1, Len(pre)) = pre

Range(s) == {s[i] : i \in 1..Len(s)}

(***************************************************************************)
(* The image directory: state "ok" with its entries in os.listdir order,   *)
(* "ENOENT" (no such directory) or "ENOTDIR" (the path is not a            *)
(* directory).  A path inside it is written by its last component.         *)
(***************************************************************************)
Dir(entries) == [state |-> "ok", entries |-> entries]
NoDir(errno) == [state |-> errno, entries |-> <<>>]

IsListing(dir) == dir.state = "ok"

\* os.path.exists(os.path.join(images_dir, name))
PathExists(dir, name) ==
  IsListing(dir) /\ (name \in Range(dir.entries) \/ name \in {<<>>, <<".">>, <<".", ".">>})

\* position of the first TRUE of a sequence of booleans, 0 when there is none
\* (the for loops that return at the first match)
FirstTrue(bs) ==
  LET I == {i \in 1..Len(bs) : bs[i]}
  IN  IF I = {} THEN 0 ELSE CHOOSE i \in I : \A j \in I : i <= j

Found(name) == [kind |-> "path", name |-> name]
NotFound    == [kind |-> "none", name |-> <<>>]
ListError   == [kind |-> "OSError", name |-> <<>>]

\* variant: the same-stem step tried before the case-insensitive step
_resolve_image_path_stem_first(dir, filename) ==
  LET sanitized    == _sanitize_filename(filename)
      lower_target == Lower(sanitized)
      byCase  == FirstTrue([i \in 1..Len(dir.entries) |->
                              Lower(dir.entries[i]) = lower_target])
      stem    == SplitExt(sanitized)[1]
      ext     == SplitExt(sanitized)[2]
      IsCand(entry) == StartsWith(entry, stem \o <<".">>)
      candidates == SelectSeq(dir.entries, IsCand)
      byExt   == FirstTrue([i \in 1..Len(candidates) |->
                              Lower(SplitExt(candidates[i])[2]) = Lower(ext)])
  IN  IF PathExists(dir, sanitized) THEN Found(sanitized)
      ELSE IF dir.state = "ENOENT" THEN NotFound
      ELSE IF dir.state = "ENOTDIR" THEN ListError
      ELSE IF stem # <<>> /\ candidates # <<>>
           THEN (IF byExt # 0 THEN Found(candidates[byExt]) ELSE Found(candidates[1]))
      ELSE IF byCase # 0 THEN Found(dir.entries[byCase])
      ELSE NotFound

\* _resolve_image_path: the path found, None (NotFound), or the exception
\* os.listdir raises when it is not FileNotFoundError (ListError)
_resolve_image_path(dir, filename) ==
  LET sanitized    == _sanitize_filename(filename)
      lower_target == Lower(sanitized)
      byCase  == FirstTrue([i \in 1..Len(dir.entries) |->
                              Lower(dir.entries[i]) = lower_target])
      stem    == SplitExt(sanitized)[1]
      ext     == SplitExt(sanitized)[2]
      IsCand(entry) == StartsWith(entry, stem \o <<".">>)
      candidates == SelectSeq(dir.entries, IsCand)
      byExt   == FirstTrue([i \in 1..Len(candidates) |->
                              Lower(SplitExt(candidates[i])[2]) = Lower(ext)])
  IN  IF PathExists(dir, sanitized) THEN Found(sanitized)
      ELSE IF dir.state = "ENOENT" THEN NotFound
      ELSE IF dir.state = "ENOTDIR" THEN ListError
      ELSE IF byCase # 0 THEN Found(dir.entries[byCase])
      ELSE IF stem # <<>> /\ candidates # <<>>
           THEN (IF byExt # 0 THEN Found(candidates[byExt]) ELSE Found(candidates[1]))
      ELSE NotFound

(***************************************************************************)
(* The FAISS index.  A vector is a tuple of integers; the inner product    *)
(* stands for the float32 inner product of IndexFlatIP.  Each stored       *)
(* vector carries, in the field "by", the (filename, answer) pair of the   *)
(* add_image call that stored it; the code has no such field, the model    *)
(* keeps it to state which metadata a vector belongs to.                   *)
(***************************************************************************)
\* self.feature_dim (512 in the source; the model works with 2 components)
feature_dim == 2

\* faiss.IndexFlatIP(d)
IndexFlatIP(d) == [d |-> d, xb |-> <<>>]

ntotal(ix) == Len(ix.xb)

RECURSIVE Dot(_, _)
Dot(a, b) == IF a = <<>> THEN 0 ELSE Head(a) * Head(b) + Dot(Tail(a), Tail(b))

\* faiss.write_index: dimension, count and the vectors laid out one after
\* the other
RECURSIVE Flatten(_)
Flatten(vs) == IF vs = <<>> THEN <<>> ELSE Head(vs) \o Flatten(Tail(vs))

write_index(ix) ==
  [state  |-> "ok",
   d      |-> ix.d,
   ntotal |-> Len(ix.xb),
   codes  |-> Flatten([i \in 1..Len(ix.xb) |-> ix.xb[i].v]),
   by     |-> [i \in 1..Len(ix.xb) |-> ix.xb[i].by]]

\* variant: the i-th vector read from offset i instead of (i - 1) * d + 1
read_index_stride(f) ==
  [d  |-> f.d,
   xb |-> [i \in 1..f.ntotal |->
             [v  |-> SubSeq(f.codes, i, i + f.d - 1),
              by |-> f.by[i]]]]

\* faiss.read_index of a well-formed file
read_index(f) ==
  [d  |-> f.d,
   xb |-> [i \in 1..f.ntotal |->
             [v  |-> SubSeq(f.codes, (i - 1) * f.d + 1, i * f.d),
              by |-> f.by[i]]]]

\* pickle.dump of the metadata list: per tuple the two strings followed by
\* the TUPLE2 opcode
RECURSIVE PickleDump(_)
PickleDump(md) ==
  IF md = <<>> THEN <<>>
  ELSE <<[s |-> md[1][1]], [s |-> md[1][2]], [op |-> "TUPLE2"]>>
       \o PickleDump(Tail(md))

\* pickle.load: the stack machine for the opcodes above
RECURSIVE PickleRun(_, _, _)
PickleRun(ops, stack, out) ==
  IF ops = <<>> THEN out
  ELSE IF "op" \in DOMAIN Head(ops)
       THEN PickleRun(Tail(ops), <<>>, Append(out, <<stack[1], stack[2]>>))
       ELSE PickleRun(Tail(ops), Append(stack, Head(ops).s), out)

PickleLoad(f) == PickleRun(f.ops, <<>>, <<>>)

Absent  == [state |-> "absent"]
Corrupt == [state |-> "corrupt"]

(***************************************************************************)
(* ImageIndex methods as functions of the instance's fields                *)
(***************************************************************************)

\* variant: an exception of pickle.load leaves the index already read in place
load_index_keep(idxf, mdf) ==
  IF idxf.state # "absent" /\ mdf.state # "absent"
  THEN IF idxf.state = "ok"
       THEN [index    |-> read_index(idxf),
             metadata |-> IF mdf.state = "ok" THEN PickleLoad(mdf) ELSE <<>>]
       ELSE [index |-> IndexFlatIP(feature_dim), metadata |-> <<>>]
  ELSE [index |-> IndexFlatIP(feature_dim), metadata |-> <<>>]

\* load_index: both files must exist; any exception of read_index or
\* pickle.load leads to the except branch
load_index(idxf, mdf) ==
  IF idxf.state # "absent" /\ mdf.state # "absent"
  THEN IF idxf.state = "ok" /\ mdf.state = "ok"
       THEN [index |-> read_index(idxf), metadata |-> PickleLoad(mdf)]
       ELSE [index |-> IndexFlatIP(feature_dim), metadata |-> <<>>]
  ELSE [index |-> IndexFlatIP(feature_dim), metadata |-> <<>>]

\* save_index.  outcome says which write raises: "ok" (none), "index"
\* (faiss.write_index) or "metadata" (open or pickle.dump); a write that
\* raises leaves its file as it was (left = "kept") or truncated
\* (left = "truncated")
save_index(ix, md, idxf, mdf, outcome, left) ==
  CASE outcome = "ok" ->
         [index_file    |-> write_index(ix),
          metadata_file |-> [state |-> "ok", ops |-> PickleDump(md)],
          raised        |-> FALSE]
    [] outcome = "index" ->
         [index_file    |-> IF left = "kept" THEN idxf ELSE Corrupt,
          metadata_file |-> mdf,
          raised        |-> TRUE]
    [] outcome = "metadata" ->
         [index_file    |-> write_index(ix),
          metadata_file |-> IF left = "kept" THEN mdf ELSE Corrupt,
          raised        |-> TRUE]

\* add_image: index.add raises when the vector has the wrong dimension, and
\* then nothing is appended
add_image(ix, md, filename, answer, features) ==
  IF Len(features) # ix.d
  THEN [index |-> ix, metadata |-> md, raised |-> TRUE]
  ELSE [index    |-> [ix EXCEPT !.xb = Append(@, [v  |-> features,
                                                    by |-> <<filename, answer>>])],
        metadata |-> Append(md, <<filename, answer>>),
        raised   |-> FALSE]

\* del self.metadata[i]
DelAt(md, i) == SubSeq(md, 1, i - 1) \o SubSeq(md, i + 1, Len(md))

\* variant: the deletions in increasing order of index (no reversed())
RECURSIVE DelForward(_, _)
DelForward(md, idxs) ==
  IF idxs = <<>> THEN md
  ELSE DelForward(DelAt(md, Head(idxs)), Tail(idxs))

\* for i in reversed(indices_to_remove): del self.metadata[i]
RECURSIVE DelReversed(_, _)
DelReversed(md, idxs) ==
  IF idxs = <<>> THEN md
  ELSE DelReversed(DelAt(md, idxs[Len(idxs)]), SubSeq(idxs, 1, Len(idxs) - 1))

\* indices_to_remove, in increasing order
RECURSIVE IndicesOf(_, _, _)
IndicesOf(md, filename, i) ==
  IF i > Len(md) THEN <<>>
  ELSE (IF md[i][1] = filename THEN <<i>> ELSE <<>>) \o IndicesOf(md, filename, i + 1)

\* remove_image
remove_image(md, filename) ==
  LET indices_to_remove == IndicesOf(md, filename, 1)
  IN  IF indices_to_remove = <<>> THEN md
      ELSE DelReversed(md, indices_to_remove)

\* what index.search may return for k neighbours: k distinct positions, by
\* non-increasing inner product, no position left out that scores higher
\* than one returned (the order among equal scores is FAISS's own)
FaissSearch(ix, q, k) ==
  {s \in [1..k -> 1..ntotal(ix)] :
     /\ \A i, j \in 1..k : i < j => s[i] # s[j]
     /\ \A i \in 1..(k - 1) : Dot(ix.xb[s[i]].v, q) >= Dot(ix.xb[s[i + 1]].v, q)
     /\ \A p \in 1..ntotal(ix) :
          (\A i \in 1..k : s[i] # p) =>
             \A i \in 1..k : Dot(ix.xb[p].v, q) <= Dot(ix.xb[s[i]].v, q)}

\* results.sort(key=similarity, reverse=True): stable, equal keys keep
\* their order
RECURSIVE InsertDesc(_, _)
InsertDesc(sorted, x) ==
  IF sorted = <<>> THEN <<x>>
  ELSE IF Head(sorted).similarity >= x.similarity
       THEN <<Head(sorted)>> \o InsertDesc(Tail(sorted), x)
       ELSE <<x>> \o sorted

\* variant: the sort without reverse=True
RECURSIVE InsertAsc(_, _)
InsertAsc(sorted, x) ==
  IF sorted = <<>> THEN <<x>>
  ELSE IF Head(sorted).similarity <= x.similarity
       THEN <<Head(sorted)>> \o InsertAsc(Tail(sorted), x)
       ELSE <<x>> \o sorted

RECURSIVE SortAsc(_)
SortAsc(rs) ==
  IF rs = <<>> THEN <<>>
  ELSE InsertAsc(SortAsc(SubSeq(rs, 1, Len(rs) - 1)), rs[Len(rs)])

RECURSIVE SortDesc(_)
SortDesc(rs) ==
  IF rs = <<>> THEN <<>>
  ELSE InsertDesc(SortDesc(SubSeq(rs, 1, Len(rs) - 1)), rs[Len(rs)])

\* the loop of lines 201-210 over the positions FAISS returned (indices are
\* 0-based in the code, 1-based here)
RECURSIVE CollectResults(_, _, _, _, _)
CollectResults(ix, md, q, found, i) ==
  IF i > Len(found) THEN <<>>
  ELSE (IF found[i] <= Len(md)
        THEN <<[filename   |-> md[found[i]][1],
                answer     |-> md[found[i]][2],
                similarity |-> Dot(ix.xb[found[i]].v, q),
                rank       |-> i,
                by         |-> ix.xb[found[i]].by]>>
        ELSE <<>>)
       \o CollectResults(ix, md, q, found, i + 1)

\* search_similar, given the positions FAISS returned.  The re-rank block of
\* lines 217-227 changes nothing in results.
search_similar(ix, md, q, found) == SortDesc(CollectResults(ix, md, q, found, 1))

(***************************************************************************)
(* rebuild_index                                                           *)
(***************************************************************************)
\* extractor.extract_features(image_path): a vector, None, or an exception.
\* A path that is the directory itself cannot be opened as an image.
Vec(v)      == [kind |-> "vec", v |-> v]
ExtractNone == [kind |-> "none", v |-> <<>>]
ExtractErr  == [kind |-> "raise", v |-> <<>>]

extract_features(ex, image_path) ==
  IF image_path \in DOMAIN ex THEN ex[image_path] ELSE ExtractNone

NaN == <<"NaN">>

\* Series.astype(str)
AsStr(x) == IF x = NaN THEN <<"n", "a", "n">> ELSE x

\* variant: line 265 left out, the rows with an empty filename stay
PrepareRowsKeepEmpty(csv) ==
  LET n == Len(csv.rows)
  IN  [i \in 1..n |->
         [filename |-> _sanitize_filename(AsStr(csv.rows[i].filename)),
          answer   |-> IF ~csv.answer_col \/ csv.rows[i].answer = NaN
                       THEN <<>> ELSE AsStr(csv.rows[i].answer)]]

\* lines 257-265: the answer column defaulted and filled, the filenames
\* sanitized, the rows with an empty filename dropped
PrepareRows(csv) ==
  LET n == Len(csv.rows)
      filled == [i \in 1..n |->
                  [filename |-> _sanitize_filename(AsStr(csv.rows[i].filename)),
                   answer   |-> IF ~csv.answer_col \/ csv.rows[i].answer = NaN
                                THEN <<>> ELSE AsStr(csv.rows[i].answer)]]
      NonEmpty(r) == r.filename # <<>>
  IN  SelectSeq(filled, NonEmpty)

\* variant: success_count incremented before add_image is known to succeed
ProcessRowCountFirst(st, row, ex, image_path) ==
  LET features == extract_features(ex, image_path)
      added    == add_image(st.index, st.metadata, Basename(image_path),
                            row.answer, features.v)
  IN  IF features.kind = "raise" THEN [st EXCEPT !.errored = @ + 1]
      ELSE IF features.kind = "none" THEN [st EXCEPT !.failed = @ + 1]
      ELSE [st EXCEPT !.index = added.index,
                      !.metadata = added.metadata,
                      !.success_count = @ + 1]

\* lines 289-301 for a row whose image was found: extraction and add_image
\* inside the inner try.  failed and errored are tallies the code does not
\* keep (it only logs): rows whose extraction returned None, rows whose
\* processing raised.
ProcessRow(st, row, ex, image_path) ==
  LET features == extract_features(ex, image_path)
      added    == add_image(st.index, st.metadata, Basename(image_path),
                            row.answer, features.v)
  IN  IF features.kind = "raise" THEN [st EXCEPT !.errored = @ + 1]
      ELSE IF features.kind = "none" THEN [st EXCEPT !.failed = @ + 1]
      ELSE IF added.raised THEN [st EXCEPT !.errored = @ + 1]
      ELSE [st EXCEPT !.index = added.index,
                      !.metadata = added.metadata,
                      !.success_count = @ + 1]

\* variant: no inner try, an exception while processing a row ends the loop
RebuildRowNoTry(st0, row, dir, ex) ==
  LET image_path == _resolve_image_path(dir, row.filename)
      st         == [st0 EXCEPT !.visited  = Append(@, row.filename),
                                !.resolved = Append(@, image_path)]
      done       == ProcessRow(st, row, ex, image_path.name)
  IN  IF image_path.kind = "OSError" THEN [st EXCEPT !.raised = "listdir"]
      ELSE IF image_path.kind = "none" \/ ~PathExists(dir, image_path.name)
           THEN [st EXCEPT !.missing_files = @ + 1]
      ELSE IF done.errored > st.errored THEN [done EXCEPT !.raised = "row"]
      ELSE done

\* one iteration of the loop of lines 279-301; an exception of
\* _resolve_image_path is outside the inner try and ends the loop.  visited
\* and resolved (kept by the model only) list the filenames handed to
\* _resolve_image_path and what it gave for each.
RebuildRow(st0, row, dir, ex) ==
  LET image_path == _resolve_image_path(dir, row.filename)
      st         == [st0 EXCEPT !.visited  = Append(@, row.filename),
                                !.resolved = Append(@, image_path)]
  IN  IF image_path.kind = "OSError" THEN [st EXCEPT !.raised = "listdir"]
      ELSE IF image_path.kind = "none" \/ ~PathExists(dir, image_path.name)
           THEN [st EXCEPT !.missing_files = @ + 1]
      ELSE ProcessRow(st, row, ex, image_path.name)

RECURSIVE RebuildRows(_, _, _, _)
RebuildRows(st, rows, dir, ex) ==
  IF rows = <<>> \/ st.raised # "" THEN st
  ELSE RebuildRows(RebuildRow(st, Head(rows), dir, ex), Tail(rows), dir, ex)

\* variant: the loop runs on the index and metadata the instance holds (no
\* fresh index)
RebuildLoopKeep(ix, md, rows, dir, ex) ==
  RebuildRows([index         |-> ix,
               metadata      |-> md,
               success_count |-> 0,
               missing_files |-> 0,
               failed        |-> 0,
               errored       |-> 0,
               visited       |-> <<>>,
               resolved      |-> <<>>,
               raised        |-> ""],
              rows, dir, ex)

\* lines 270-301: the fresh index and the loop
RebuildLoop(ix, md, rows, dir, ex) ==
  RebuildRows([index         |-> IndexFlatIP(feature_dim),
               metadata      |-> <<>>,
               success_count |-> 0,
               missing_files |-> 0,
               failed        |-> 0,
               errored       |-> 0,
               visited       |-> <<>>,
               resolved      |-> <<>>,
               raised        |-> ""],
              rows, dir, ex)

(***************************************************************************)
(* PDF files.  A page is its number in the original document and the       *)
(* watermark texts merged into it, in the order of merging.                *)
(***************************************************************************)
PdfAbsent       == [kind |-> "absent", encrypted |-> FALSE, pages |-> <<>>]
PdfGarbage      == [kind |-> "garbage", encrypted |-> FALSE, pages |-> <<>>]
Pdf(pages)      == [kind |-> "pdf", encrypted |-> FALSE, pages |-> pages]
PdfEncrypted(pages) == [kind |-> "pdf", encrypted |-> TRUE, pages |-> pages]

NewPages(n) == [i \in 1..n |-> [n |-> i, marks |-> <<>>]]

DP  == <<"d", ".", "p">>
DNoExt == <<"d">>
OP  == <<"o", ".", "p">>

\* the paths of the file system of the watermarker
PdfPaths == {DP, DNoExt, OP, <<"d", "_watermarked", ".", "p">>, <<"d", "_watermarked">>}

NoPdfFiles == [path \in PdfPaths |-> PdfAbsent]

(***************************************************************************)
(* Inputs                                                                  *)
(***************************************************************************)
AJ == <<"a", ".", "j">>
BJ == <<"b", ".", "j">>
AP == <<"a", ".", "p">>
AUpperP == <<"A", ".", "p">>

V1 == <<1, 0>>
V2 == <<0, 1>>
BadVec == <<1>>                 \* a vector of another dimension

Vecs      == {V1, V2}
FileNames == {AJ, BJ}           \* filenames passed to remove_image

\* (filename, answer, features) of the add_image calls
AddCalls == {<<AJ, <<"1">>, V1>>, <<BJ, <<"2">>, V2>>, <<AJ, <<"1">>, BadVec>>}

\* which write of save_index raises, and what it leaves of its file
SaveOutcomes == {<<"ok", "kept">>, <<"index", "kept">>, <<"index", "truncated">>,
                 <<"metadata", "kept">>, <<"metadata", "truncated">>}

\* raw filename cells and rows of the catalog
RowSet   == {[filename |-> AJ, answer |-> <<"1">>],
             [filename |-> <<"A", ".", "j">>, answer |-> NaN],
             [filename |-> <<"b", ".", "j", "TAB", ",">>, answer |-> <<"2">>],
             [filename |-> <<" ", ",">>, answer |-> <<"1">>]}
Catalogs == {[answer_col |-> c, rows |-> r] :
               c \in BOOLEAN, r \in SeqsUpTo(RowSet, MaxRows)}
Dirs     == {NoDir("ENOENT"), NoDir("ENOTDIR"), Dir(<<AUpperP, AJ>>), Dir(<<AP, BJ>>)}
Extracts == {[n \in {AJ, BJ, AP} |-> Vec(V1)],
             (AJ :> Vec(V1)) @@ (BJ :> Vec(V2)) @@ (AP :> ExtractNone),
             (AJ :> Vec(BadVec)) @@ (BJ :> ExtractErr) @@ (AP :> Vec(V2))}

\* the catalog and extractor of the runs that exercise the index operations
Catalog0 == [answer_col |-> TRUE,
             rows |-> <<[filename |-> AJ, answer |-> <<"1">>],
                        [filename |-> <<"b", ".", "j", "TAB", ",">>,
                         answer   |-> <<"2">>]>>]
Extract0 == (AJ :> Vec(V1)) @@ (BJ :> Vec(V2)) @@ (AP :> ExtractNone)

\* characters of the raw filenames given to _sanitize_filename alone
SanChars == {"a", ".", " ", "TAB", "DQUOTE", "'", ",", "/", "U+FF0C", "U+3002"}

(***************************************************************************)
(* Actions                                                                 *)
(***************************************************************************)
\* __init__ on a new installation: no persisted file, load_index takes the
\* else branch
InitIndex ==
  /\ index = IndexFlatIP(feature_dim)
  /\ metadata = <<>>
  /\ index_file = Absent
  /\ metadata_file = Absent
  /\ last = [op |-> "init", raised |-> FALSE]
  /\ ret = None

Init ==
  /\ InitIndex
  /\ pdf_files = NoPdfFiles
  /\ questions_csv = Catalog0
  /\ images_dir \in {Dir(<<AP, BJ>>), NoDir("ENOTDIR")}
  /\ extract = Extract0

\* what the operations of the image index leave alone
Env == <<questions_csv, images_dir, extract, pdf_files>>

\* load_index, also what __init__ of a further instance on the same paths does
Load ==
  LET l == load_index(index_file, metadata_file)
  IN  /\ index' = l.index
      /\ metadata' = l.metadata
      /\ last' = [op |-> "load", raised |-> FALSE]
      /\ ret' = None
      /\ UNCHANGED <<index_file, metadata_file, Env>>

Save ==
  \E o \in SaveOutcomes :
    LET sv == save_index(index, metadata, index_file, metadata_file, o[1], o[2])
    IN  /\ index_file' = sv.index_file
        /\ metadata_file' = sv.metadata_file
        /\ last' = [op |-> "save", raised |-> sv.raised]
        /\ ret' = None
        /\ UNCHANGED <<index, metadata, Env>>

Add ==
  \E c \in AddCalls :
    LET a == add_image(index, metadata, c[1], c[2], c[3])
    IN  /\ ntotal(index) < MaxVecs
        /\ Len(metadata) < MaxVecs
        /\ index' = a.index
        /\ metadata' = a.metadata
        /\ last' = [op |-> "add", raised |-> a.raised]
        /\ ret' = None
        /\ UNCHANGED <<index_file, metadata_file, Env>>

Remove ==
  \E filename \in FileNames :
    /\ metadata' = remove_image(metadata, filename)
    /\ last' = [op |-> "remove", raised |-> FALSE, filename |-> filename]
    /\ ret' = None
    /\ UNCHANGED <<index, index_file, metadata_file, Env>>

\* search_similar: [] for an empty index and for any exception (a query of
\* another dimension makes index.search raise)
Search ==
  \E q \in Vecs \cup {BadVec}, top_k \in 1..MaxTopK :
    /\ last' = [op |-> "search", raised |-> FALSE, top_k |-> top_k]
    /\ IF ntotal(index) = 0 \/ Len(q) # index.d
       THEN ret' = <<>>
       ELSE \E found \in FaissSearch(index, q, Min(top_k, ntotal(index))) :
              ret' = search_similar(index, metadata, q, found)
    /\ UNCHANGED <<index, metadata, index_file, metadata_file, Env>>

\* rebuild_index.  The first disjunct: something raises before the index is
\* replaced: the catalog cannot be read ("missing", "invalid"), it has no
\* filename column (lines 249-256), or ImageFeatureExtractor() of line 268
\* raises ("extractor").  again: the call before this one was a rebuild
\* that returned.
Rebuild ==
  \E rows \in {PrepareRows(questions_csv)} :
  \E st \in {RebuildLoop(index, metadata, rows, images_dir, extract)} :
  LET again == last.op = "rebuild" /\ ~last.raised
      call(why) == [op |-> "rebuild", raised |-> why # "", why |-> why,
                    again |-> again,
                    total_count |-> Len(rows),
                    missing_files |-> st.missing_files,
                    failed |-> st.failed, errored |-> st.errored,
                    visited |-> st.visited, resolved |-> st.resolved]
  IN
  \/ \E early \in {"missing", "invalid", "no filename column", "extractor"} :
       /\ last' = [op |-> "rebuild", raised |-> TRUE, why |-> early]
       /\ ret' = None
       /\ UNCHANGED <<index, metadata, index_file, metadata_file, Env>>
  \/ /\ st.raised # ""
     /\ index' = st.index
     /\ metadata' = st.metadata
     /\ last' = call(st.raised)
     /\ ret' = None
     /\ UNCHANGED <<index_file, metadata_file, Env>>
  \/ /\ st.raised = ""
     /\ \E o \in SaveOutcomes :
          LET sv == save_index(st.index, st.metadata, index_file, metadata_file,
                               o[1], o[2])
          IN  /\ index' = st.index
              /\ metadata' = st.metadata
              /\ index_file' = sv.index_file
              /\ metadata_file' = sv.metadata_file
              /\ last' = call(IF sv.raised THEN "save" ELSE "")
              /\ ret' = IF sv.raised THEN None ELSE <<st.success_count, Len(rows)>>
              /\ UNCHANGED Env

\* _sanitize_filename applied to the value at hand (first the raw name)
Sanitize ==
  /\ last.op \in {"raw", "sanitize"}
  /\ last.times < 2
  /\ ret' = _sanitize_filename(ret)
  /\ last' = [op |-> "sanitize", raised |-> FALSE, times |-> last.times + 1,
              raw |-> last.raw]
  /\ UNCHANGED <<index, metadata, index_file, metadata_file, Env>>

Next == Load \/ Save \/ Add \/ Remove \/ Search \/ Rebuild

Spec == Init /\ [][Next]_vars

\* rebuild_index over every catalog, directory and extractor of the bounds
InitBuild ==
  /\ InitIndex
  /\ pdf_files = NoPdfFiles
  /\ questions_csv \in Catalogs
  /\ images_dir \in Dirs
  /\ extract \in Extracts

NextBuild == Rebuild \/ Add \/ Remove

SpecBuild == InitBuild /\ [][NextBuild]_vars

\* _sanitize_filename on every raw name of the bounds
InitSanitize ==
  /\ index = IndexFlatIP(feature_dim)
  /\ metadata = <<>>
  /\ index_file = Absent
  /\ metadata_file = Absent
  /\ questions_csv = Catalog0
  /\ images_dir = Dir(<<>>)
  /\ extract = Extract0
  /\ pdf_files = NoPdfFiles
  /\ ret \in SeqsUpTo(SanChars, MaxLen)
  /\ last = [op |-> "raw", raised |-> FALSE, times |-> 0, raw |-> ret]

NextSanitize == Sanitize

SpecSanitize == InitSanitize /\ [][NextSanitize]_vars

(***************************************************************************)
(* Properties                                                              *)
(***************************************************************************)
EmptyIndex == IndexFlatIP(feature_dim)

Returned(op) == last.op = op /\ ~last.raised

\* C1: after any sequence of load, add, remove, rebuild and save the number
\* of vectors in the index equals the number of metadata entries.
C1_VectorsMatchMetadata == ntotal(index) = Len(metadata)

\* C2: every result of search carries the (filename, answer) pair that was
\* passed to the add call that stored the vector whose similarity the result
\* reports.
C2_ResultJoinedWithItsVector ==
  last.op = "search" =>
    \A i \in 1..Len(ret) : <<ret[i].filename, ret[i].answer>> = ret[i].by

\* C3: search returns at most min(top_k, number of vectors) results, and the
\* similarities of the returned list are non-increasing.
C3_SearchBoundedAndSorted ==
  last.op = "search" =>
    /\ Len(ret) <= Min(last.top_k, ntotal(index))
    /\ \A i, j \in 1..Len(ret) : i < j => ret[i].similarity >= ret[j].similarity

C3_Witness ==
  /\ last.op = "search"
  /\ last.top_k = 2
  /\ Len(ret) = 2
  /\ ret[1].similarity > ret[2].similarity

\* the entries of md whose filename is not the given one, in their order
OtherEntries(md, filename) ==
  LET Other(e) == e[1] # filename
  IN  SelectSeq(md, Other)

\* C4: remove(filename) deletes exactly the metadata entries with that
\* filename, keeps the others in their order, and leaves the vectors of the
\* index unchanged; when no entry matches nothing changes.
C4_RemoveFrame ==
  [][last'.op = "remove" =>
       /\ metadata' = OtherEntries(metadata, last'.filename)
       /\ index' = index
       /\ ((\A i \in 1..Len(metadata) : metadata[i][1] # last'.filename)
             => metadata' = metadata)]_vars

C4_Witness ==
  /\ last.op = "remove"
  /\ ntotal(index) = 2
  /\ Len(metadata) = 1
  /\ metadata[1][1] # last.filename
  /\ \E i \in 1..2 : index.xb[i].by[1] = last.filename

\* the catalog rows whose normalized filename is not empty
NamedRows(csv) ==
  {i \in 1..Len(csv.rows) : _sanitize_filename(AsStr(csv.rows[i].filename)) # <<>>}

\* C5: when rebuild returns (success_count, total_count), success_count is
\* the number of records the index holds (metadata entries and vectors),
\* total_count is the number of catalog rows with a non-empty normalized
\* filename, success_count <= total_count, and success_count plus the rows
\* skipped as missing plus the rows skipped after they were found (extraction
\* returned None, or extraction or add raised) is total_count.
C5_RebuildCounts ==
  Returned("rebuild") =>
    /\ ret[1] = Len(metadata)
    /\ ret[1] = ntotal(index)
    /\ ret[2] = Cardinality(NamedRows(questions_csv))
    /\ ret[1] <= ret[2]
    /\ ret[1] + last.missing_files + last.failed + last.errored = ret[2]

C5_Witness ==
  /\ Returned("rebuild")
  /\ ret[1] = 1
  /\ ret[2] = 2
  /\ last.missing_files + last.failed + last.errored = 1

\* C6: a rebuild that returns right after a rebuild that returned gives the
\* same counts and leaves the same filenames in the same order, and what a
\* rebuild returns and stores is what a rebuild on a newly constructed, empty
\* instance returns and stores, whatever the index held before the call.
C6_RebuildIdempotent ==
  [][(last'.op = "rebuild" /\ ~last'.raised) =>
       /\ (Returned("rebuild") => ret' = ret /\ metadata' = metadata)
       /\ LET fresh == RebuildLoop(EmptyIndex, <<>>, PrepareRows(questions_csv),
                                   images_dir, extract)
          IN  /\ ret' = <<fresh.success_count, Len(PrepareRows(questions_csv))>>
              /\ metadata' = fresh.metadata
              /\ index' = fresh.index]_vars

C6_Witness ==
  /\ Returned("rebuild")
  /\ last.again
  /\ ret[1] >= 1

CatalogCauses == {"missing", "invalid", "no filename column"}

\* C7 as stated: rebuild raises only when the catalog file is missing or
\* invalid or has no filename column.
C7_RaisesOnlyForCatalog ==
  (last.op = "rebuild" /\ last.raised) => last.why \in CatalogCauses

\* C7 amended: rebuild raises only when the catalog file is missing or
\* invalid or has no filename column, when the feature extractor cannot be
\* constructed, when listing the image directory fails with an error other
\* than not-found, or when the final save fails; a row whose image is not
\* found, whose extraction returns None or whose extraction or add raises is
\* skipped (it is not among the successes), and the rebuild goes on to the
\* save and, when that succeeds, returns its counts.
C7_RaiseCauses ==
  last.op = "rebuild" =>
    /\ last.raised => last.why \in CatalogCauses \cup {"extractor", "listdir", "save"}
    /\ (last.raised /\ last.why = "listdir") => images_dir.state = "ENOTDIR"
    /\ ~last.raised =>
         /\ ret = <<Len(metadata), last.total_count>>
         /\ last.missing_files + last.failed + last.errored
              = last.total_count - Len(metadata)

C7_Witness ==
  /\ Returned("rebuild")
  /\ last.errored >= 1
  /\ last.missing_files + last.failed >= 1

\* C8: a successful save (alone or at the end of a rebuild) followed by a
\* load yields the metadata list that was saved, in the same order, and the
\* same vectors at the same positions, so that every search gives what it
\* gave before.
C8_SaveLoadRoundTrip ==
  [][(last.op \in {"save", "rebuild"} /\ ~last.raised /\ last'.op = "load") =>
       /\ metadata' = metadata
       /\ index' = index
       /\ \A q \in Vecs, k \in 1..MaxTopK :
            k <= ntotal(index) =>
              {search_similar(index', metadata', q, f) : f \in FaissSearch(index', q, k)}
                = {search_similar(index, metadata, q, f) : f \in FaissSearch(index, q, k)}]_vars

C8_Witness ==
  /\ last.op = "load"
  /\ ntotal(index) = 2
  /\ index.xb[1].v # index.xb[2].v
  /\ Len(metadata) = 2
  /\ metadata[1] # metadata[2]

\* C9: load never raises; when both files exist and deserialize the instance
\* holds their contents, and when either is absent or fails to deserialize
\* it holds an empty index together with an empty metadata list.
C9_LoadAllOrNothing ==
  last.op = "load" =>
    /\ ~last.raised
    /\ IF index_file.state = "ok" /\ metadata_file.state = "ok"
       THEN /\ write_index(index) = index_file
            /\ PickleDump(metadata) = metadata_file.ops
       ELSE /\ index = EmptyIndex
            /\ metadata = <<>>

C9_Witness ==
  /\ last.op = "load"
  /\ index_file.state = "ok"
  /\ index_file.ntotal > 0
  /\ metadata_file.state = "corrupt"

\* C10: filename normalization is idempotent: normalizing the result of a
\* normalization returns it unchanged.
C10_SanitizeIdempotent ==
  (last.op = "sanitize" /\ last.times = 1) => _sanitize_filename(ret) = ret

\* the characters the normalized filename must not end with: comma, period and
\* semicolon in Latin and CJK form
ForbiddenEnd == {",", ".", ";", "U+FF0C", "U+3002", "U+FF1B"}

\* C11: the normalized filename has no surrounding whitespace or quote
\* character, does not end with a comma, a period or a semicolon (Latin or
\* CJK) nor with whitespace, and contains no path separator.
C11_SanitizedIsClean ==
  (last.op = "sanitize" /\ last.times = 1 /\ ret # <<>>) =>
    /\ Head(ret) \notin Whitespace \cup Quotes
    /\ ret[Len(ret)] \notin Whitespace \cup Quotes \cup ForbiddenEnd
    /\ "/" \notin Range(ret)

\* the rebuild got as far as the loop over the rows
LoopReached ==
  last.op = "rebuild" /\ (last.raised => last.why \in {"listdir", "save"})

\* the normalized filenames of the catalog rows, in row order
RowNames(csv) ==
  [i \in 1..Len(csv.rows) |-> _sanitize_filename(AsStr(csv.rows[i].filename))]

IsPrefix(s, t) == Len(s) <= Len(t) /\ SubSeq(t, 1, Len(s)) = s

NotEmptyName(name) == name # <<>>

\* C12: a catalog row whose normalized filename is empty is dropped before
\* processing: total_count counts only the rows with a non-empty normalized
\* filename, path resolution (and so the missing-file count and extraction)
\* is attempted for those rows only, in catalog order, and every row counted
\* as missing, failed or added is one of them.
C12_EmptyRowsDropped ==
  LoopReached =>
    /\ last.total_count = Cardinality(NamedRows(questions_csv))
    /\ \A i \in 1..Len(last.visited) : last.visited[i] # <<>>
    /\ IsPrefix(last.visited, SelectSeq(RowNames(questions_csv), NotEmptyName))
    /\ last.missing_files + last.failed + last.errored + Len(metadata)
         <= Len(last.visited)
    /\ (~last.raised \/ last.why = "save") =>
         Len(last.visited) = last.total_count

C12_Witness ==
  /\ Returned("rebuild")
  /\ \E i \in 1..Len(questions_csv.rows) :
       /\ questions_csv.rows[i].filename # <<>>
       /\ RowNames(questions_csv)[i] = <<>>
  /\ last.total_count = 1
  /\ Len(questions_csv.rows) = 2
  /\ Len(last.visited) = 1
  /\ last.missing_files = 1

\* the entries of the directory (none when it cannot be listed)
Entries(dir) == IF IsListing(dir) THEN Range(dir.entries) ELSE {}

\* the entries equal to name up to letter case
CaseMatches(dir, name) == {e \in Entries(dir) : Lower(e) = Lower(name)}

\* the entries with the stem of name and some extension
StemMatches(dir, name) ==
  {e \in Entries(dir) : SplitExt(e)[1] = SplitExt(name)[1] /\ SplitExt(e)[2] # <<>>}

\* C13: for every row the loop resolves (without the listing raising), the
\* path is the exact normalized name when that exists, otherwise an entry
\* equal to it up to letter case when there is one, otherwise an entry with
\* the same stem and some extension when there is one, otherwise none; the
\* missing-file count is the number of rows for which all three steps found
\* nothing, so a name that differs from an entry only in letter case is
\* resolved and not counted as missing.
C13_ResolutionOrder ==
  LoopReached =>
    /\ \A i \in 1..Len(last.resolved) :
         LET name == _sanitize_filename(last.visited[i])
             r    == last.resolved[i]
         IN  r.kind # "OSError" =>
               IF PathExists(images_dir, name) THEN r = Found(name)
               ELSE IF CaseMatches(images_dir, name) # {}
                    THEN r.kind = "path" /\ r.name \in CaseMatches(images_dir, name)
               ELSE IF StemMatches(images_dir, name) # {}
                    THEN r.kind = "path" /\ r.name \in StemMatches(images_dir, name)
               ELSE r = NotFound
    /\ last.missing_files
         = Cardinality({i \in 1..Len(last.resolved) : last.resolved[i].kind = "none"})

\* the catalog names "A.j" where the directory holds "a.j" and "A.p": the
\* case-insensitive step and the same-stem step would both find an entry
C13_Witness ==
  /\ Returned("rebuild")
  /\ \E i \in 1..Len(last.resolved) :
       /\ last.visited[i] = <<"A", ".", "j">>
       /\ ~PathExists(images_dir, last.visited[i])
       /\ StemMatches(images_dir, last.visited[i]) # {}
       /\ last.resolved[i] = Found(AJ)
  /\ last.missing_files = 0
  /\ ret[1] >= 1
  /\ \E j \in 1..Len(metadata) : metadata[j][1] = AJ

\* C14: after a rebuild that returned, and after an add, no two records of
\* the index have the same filename.
C14_UniqueFilenames ==
  (last.op \in {"rebuild", "add"} /\ ~last.raised) =>
    \A i, j \in 1..Len(metadata) : i < j => metadata[i][1] # metadata[j][1]

(***************************************************************************)
(* The entry points that match a query image:                              *)
(*   src/app.py          upload_image_for_matching  (/cab/upload-image)    *)
(*   src/cab_manager.py  test_matching              (--action test)        *)
(* Each constructs its own ImageFeatureExtractor and ImageIndex (which     *)
(* loads the persisted files).  A result is a record of what the caller    *)
(* receives (response), the outcome the call came to (a label the model    *)
(* keeps), the calls made on the way, and the instance constructed.        *)
(***************************************************************************)
\* top_k=5 of the upload endpoint
UploadTopK == 5

\* the dictionaries of search_similar (the model's "by" left out)
AsMatches(rs) ==
  [i \in 1..Len(rs) |-> [filename   |-> rs[i].filename,
                         answer     |-> rs[i].answer,
                         similarity |-> rs[i].similarity,
                         rank       |-> rs[i].rank]]

\* every list search_similar may return: [] for an empty index and for any
\* exception, else the sorted results for one of the orders FAISS may give
SearchResults(ix, md, q, top_k) ==
  IF ntotal(ix) = 0 \/ Len(q) # ix.d THEN {<<>>}
  ELSE {search_similar(ix, md, q, found) :
          found \in FaissSearch(ix, q, Min(top_k, ntotal(ix)))}

\* lines 217-227 of search_similar: with re-ranking on and results at hand the
\* weight is read and clamped and an extractor is constructed; no local
\* similarity is computed and results is left as it is.  env: use_rerank
\* (CAB_ORB_RERANK), orb_weight (CAB_ORB_WEIGHT, in tenths), orb (what
\* compute_orb_similarity would give for the query and each stored image,
\* 0 or 1).
rerank_block(results, env) == results

\* search_similar as the entry points call it, in the environment env
SearchResultsEnv(ix, md, q, top_k, env) ==
  {rerank_block(m, env) : m \in SearchResults(ix, md, q, top_k)}

\* the environments of the re-rank stage; the first is the default one with
\* no local similarity between the query and any stored image
OrbEnvs == [use_rerank : BOOLEAN, orb_weight : {4, 10}, orb : [FileNames -> {0, 1}]]
DefaultOrbEnv == [use_rerank |-> TRUE, orb_weight |-> 4, orb |-> [f \in FileNames |-> 0]]

\* get_stats (the two counts)
get_stats(ix, md) == [total_images |-> Len(md), index_size |-> ntotal(ix)]

JSONResponse(success, message, matches, stats) ==
  [kind |-> "JSONResponse", status |-> 200, success |-> success,
   message |-> message, matches |-> matches, stats |-> stats]

HTTPException(status, detail) ==
  [kind |-> "HTTPException", status |-> status, detail |-> detail]

Result(outcome, response, calls, l) ==
  [outcome |-> outcome, response |-> response, calls |-> calls,
   index |-> l.index, metadata |-> l.metadata]

NoInstance == [index |-> IndexFlatIP(feature_dim), metadata |-> <<>>]

\* upload_image_for_matching.  req: content_type_ok (the content type starts
\* with image/), has_content (the upload is not empty), image (the picture,
\* named by the path the extractor knows it by), extractor_ok
\* (ImageFeatureExtractor() does not raise), env (the environment of the
\* re-rank stage).
upload_image_for_matching(idxf, mdf, ex, req) ==
  LET l        == load_index(idxf, mdf)
      stats    == get_stats(l.index, l.metadata)
      features == extract_features(ex, req.image)
      c1 == <<"ImageFeatureExtractor">>
      c2 == c1 \o <<"ImageIndex", "get_stats">>
      c3 == c2 \o <<"extract_features">>
      c4 == c3 \o <<"search_similar">>
  IN  IF ~req.content_type_ok
      THEN {Result("rejected", HTTPException(400, "not an image"), <<>>, NoInstance)}
      ELSE IF ~req.has_content
      THEN {Result("rejected", HTTPException(400, "empty file"), <<>>, NoInstance)}
      ELSE IF ~req.extractor_ok
      THEN {Result("unavailable", HTTPException(500, "error processing"), c1, NoInstance)}
      ELSE IF stats.total_images = 0
      THEN {Result("empty",
                   JSONResponse(FALSE, "library empty, build the index", <<>>, stats),
                   c2, l)}
      ELSE IF features.kind = "none"
      THEN {Result("extract_failed", HTTPException(400, "cannot extract features"), c3, l)}
      ELSE IF features.kind = "raise"
      THEN {Result("extract_failed", HTTPException(500, "error processing"), c3, l)}
      ELSE {Result("searched",
                   JSONResponse(TRUE, <<"found", Len(m)>>, AsMatches(m), stats),
                   c4, l) :
              m \in SearchResultsEnv(l.index, l.metadata, features.v, UploadTopK,
                                     req.env)}

\* a variable of the environment read as a number: not set, a number (held
\* in the unit of its use: tenths for CAB_REGION_WEIGHT), or a text float()
\* rejects
EnvUnset     == [kind |-> "unset", tenths |-> 0]
EnvNumber(t) == [kind |-> "number", tenths |-> t]
EnvText      == [kind |-> "text", tenths |-> 0]

\* line 121-122: temp = float(os.environ.get("CAB_SCORE_TEMP", 0.1)) bounded
\* to [1e-3, 5.0], in thousandths
score_temp_used(env) ==
  Max(1, Min(5000, IF env.kind = "unset" THEN 100 ELSE env.tenths))

\* line 135: the T printed with every match,
\* float(os.environ.get('CAB_SCORE_TEMP', 0.25)), in thousandths
score_temp_reported(env) ==
  IF env.kind = "unset" THEN 250 ELSE env.tenths

\* what test_matching prints: the number of result lines, the temperature
\* the confidences were computed with and the temperature printed
NoPrint == [lines |-> 0, temp_used |-> 0, temp_reported |-> 0]
Printed(m, env) ==
  IF m = <<>> \/ env.kind = "text" THEN NoPrint
  ELSE [lines |-> Len(m), temp_used |-> score_temp_used(env),
        temp_reported |-> score_temp_reported(env)]

TestResult(outcome, response, calls, l, printed) ==
  [outcome |-> outcome, response |-> response, calls |-> calls,
   index |-> l.index, metadata |-> l.metadata, printed |-> printed]

\* return True / return False
Return(value) == [kind |-> "return", value |-> value]

\* test_matching.  req: dependencies_ok (check_dependencies), exists
\* (os.path.exists(image_path)), image, top_k, extractor_ok, score_temp (the
\* CAB_SCORE_TEMP of the environment, in thousandths).  The response is the
\* value returned: False from the handler of lines 147-149 when float()
\* rejects CAB_SCORE_TEMP at line 121.
test_matching(idxf, mdf, ex, req) ==
  LET l        == load_index(idxf, mdf)
      stats    == get_stats(l.index, l.metadata)
      features == extract_features(ex, req.image)
      c1 == <<"ImageFeatureExtractor">>
      c2 == c1 \o <<"ImageIndex", "get_stats">>
      c3 == c2 \o <<"extract_features">>
      c4 == c3 \o <<"search_similar">>
  IN  IF ~req.dependencies_ok
      THEN {TestResult("unavailable", Return(FALSE), <<>>, NoInstance, NoPrint)}
      ELSE IF ~req.exists
        THEN {TestResult("rejected", Return(FALSE), <<>>, NoInstance, NoPrint)}
      ELSE IF ~req.extractor_ok
        THEN {TestResult("unavailable", Return(FALSE), c1, NoInstance, NoPrint)}
      ELSE IF stats.total_images = 0
        THEN {TestResult("empty", Return(FALSE), c2, l, NoPrint)}
      ELSE IF features.kind # "vec"
        THEN {TestResult("extract_failed", Return(FALSE), c3, l, NoPrint)}
      ELSE {TestResult("searched", Return(m = <<>> \/ req.score_temp.kind # "text"),
                       c4, l, Printed(m, req.score_temp)) :
              m \in SearchResultsEnv(l.index, l.metadata, features.v, req.top_k,
                                     DefaultOrbEnv)}

\* CAB_SCORE_TEMP: not set, 0.25, 7.0, not a number
ScoreTemps == {EnvUnset, EnvNumber(250), EnvNumber(7000), EnvText}

\* the images a query is made with
QueryImages == {AJ, BJ, AP}

UploadRequests ==
  [content_type_ok : BOOLEAN, has_content : BOOLEAN, extractor_ok : BOOLEAN,
   image : QueryImages, env : OrbEnvs]

TestRequests ==
  [dependencies_ok : BOOLEAN, exists : BOOLEAN, extractor_ok : BOOLEAN,
   score_temp : ScoreTemps, image : QueryImages, top_k : 1..MaxTopK]

\* the instance after the add_image calls of a sequence
RECURSIVE AddAll(_)
AddAll(calls) ==
  IF calls = <<>> THEN NoInstance
  ELSE LET before == AddAll(SubSeq(calls, 1, Len(calls) - 1))
           c      == calls[Len(calls)]
           a      == add_image(before.index, before.metadata, c[1], c[2], c[3])
       IN  [index |-> a.index, metadata |-> a.metadata]

\* the two persisted files a successful save_index leaves
Saved(inst) ==
  LET sv == save_index(inst.index, inst.metadata, Absent, Absent, "ok", "kept")
  IN  <<sv.index_file, sv.metadata_file>>

\* what the entry points may find on disk: nothing, or the files saved after
\* some add_image calls, possibly followed by a remove_image
MatchDisks ==
  LET built == {AddAll(cs) : cs \in SeqsUpTo({c \in AddCalls : Len(c[3]) = feature_dim},
                                             MaxVecs)}
  IN  {<<Absent, Absent>>}
        \cup {Saved(b) : b \in built}
        \cup {Saved([b EXCEPT !.metadata = remove_image(@, f)]) :
                b \in built, f \in FileNames}

InitMatch ==
  /\ index = IndexFlatIP(feature_dim)
  /\ metadata = <<>>
  /\ \E d \in MatchDisks : index_file = d[1] /\ metadata_file = d[2]
  /\ questions_csv = Catalog0
  /\ images_dir = Dir(<<AP, BJ>>)
  /\ extract \in Extracts
  /\ pdf_files = NoPdfFiles
  /\ last = [op |-> "init", raised |-> FALSE]
  /\ ret = None

Upload ==
  \E req \in UploadRequests :
  \E r \in upload_image_for_matching(index_file, metadata_file, extract, req) :
    /\ index' = r.index
    /\ metadata' = r.metadata
    /\ last' = [op |-> "upload", raised |-> r.response.kind = "HTTPException",
                outcome |-> r.outcome, calls |-> r.calls,
                env |-> IF r.outcome = "searched" THEN req.env ELSE DefaultOrbEnv]
    /\ ret' = r.response
    /\ UNCHANGED <<index_file, metadata_file, Env>>

TestMatching ==
  \E req \in TestRequests :
  \E r \in test_matching(index_file, metadata_file, extract, req) :
    /\ index' = r.index
    /\ metadata' = r.metadata
    /\ last' = [op |-> "test", raised |-> FALSE,
                outcome |-> r.outcome, calls |-> r.calls,
                score_temp |-> req.score_temp, printed |-> r.printed]
    /\ ret' = r.response
    /\ UNCHANGED <<index_file, metadata_file, Env>>

NextMatch == Upload \/ TestMatching

SpecMatch == InitMatch /\ [][NextMatch]_vars

\* the (outcome, response) pairs an entry point can give, over every disk,
\* extractor and request of the bounds
UploadPairs ==
  UNION {{<<r.outcome, r.response>> :
            r \in upload_image_for_matching(d[1], d[2], ex, req)} :
           d \in MatchDisks, ex \in Extracts, req \in UploadRequests}

TestPairs ==
  UNION {{<<r.outcome, r.response>> : r \in test_matching(d[1], d[2], ex, req)} :
           d \in MatchDisks, ex \in Extracts, req \in TestRequests}

MatchOutcomes == {"empty", "extract_failed", "searched"}

\* C15: at each entry point the outcomes "index is empty", "features could
\* not be extracted" and "search ran" are pairwise distinguishable from what
\* the caller receives (no call with another of the three outcomes gives the
\* same response), and the empty-index outcome is decided before any
\* extraction or search and is not raised as an exception.
C15_OutcomesDistinguishable ==
  (last.op \in {"upload", "test"} /\ last.outcome \in MatchOutcomes) =>
    /\ \A p \in (IF last.op = "upload" THEN UploadPairs ELSE TestPairs) :
         (p[1] \in MatchOutcomes /\ p[1] # last.outcome) => p[2] # ret
    /\ last.outcome = "empty" =>
         /\ ~last.raised
         /\ \A i \in 1..Len(last.calls) :
              last.calls[i] \notin {"extract_features", "search_similar"}

\* final score of a match in tenths: orb_weight * orb_score
\* + (1 - orb_weight) * embedding_score
FinalScore(env, m) ==
  env.orb_weight * env.orb[m.filename] + (10 - env.orb_weight) * m.similarity

\* C16: with re-ranking enabled the list returned for a query is ordered by
\* descending final score, so a candidate with a lower embedding similarity
\* and a sufficiently higher local-descriptor score comes first.
C16_RerankedByFinal ==
  (last.op = "upload" /\ last.outcome = "searched" /\ last.env.use_rerank) =>
    \A i, j \in 1..Len(ret.matches) :
      i < j => FinalScore(last.env, ret.matches[i]) >= FinalScore(last.env, ret.matches[j])

(***************************************************************************)
(* ImageFeatureExtractor.extract_features (src/cab/feature_extractor.py)   *)
(* from the inside.  Floats are fixed-point numbers: the integer n stands  *)
(* for n / Unit, so a unit vector has squared length Unit * Unit.  A       *)
(* picture is given by what the steps of the function make of it.          *)
(***************************************************************************)
\* largest r with r * r <= n
ISqrt(n) == CHOOSE r \in 0..(2 * Unit * Unit) : r * r <= n /\ n < (r + 1) * (r + 1)

\* x / n rounded to the nearest fixed-point number
RoundDiv(x, n) == (2 * x * Unit + n) \div (2 * n)

\* lines 206-207: alpha in tenths, default 0.7, clamped to [0, 1]
region_weight(env) ==
  IF env.kind = "unset" THEN 7 ELSE Max(0, Min(10, env.tenths))

\* lines 252-255: combined = alpha * feat_roi + (1 - alpha) * feat_full,
\* divided by its length plus 1e-12.  combined is held in units of
\* 1 / (10 * Unit); 1e-12 is below the resolution, it only matters when the
\* length is 0, where the quotient is the zero vector.
fuse(alpha, feat_roi, feat_full) ==
  LET combined == [i \in 1..Len(feat_full) |->
                     alpha * feat_roi[i] + (10 - alpha) * feat_full[i]]
      norm     == ISqrt(Dot(combined, combined))
  IN  IF norm = 0 THEN [i \in 1..Len(combined) |-> 0]
      ELSE [i \in 1..Len(combined) |-> RoundDiv(combined[i], norm)]

NoFeat == <<>>

\* the block of lines 221-236 without its try: an exception while cropping
\* or encoding the box leaves it
detected_region_no_try(img) ==
  IF img.use_roi /\ img.box
    THEN [raised |-> img.feat_box = NoFeat, feat_roi |-> img.feat_box]
    ELSE [raised |-> FALSE, feat_roi |-> NoFeat]

\* lines 221-236, the block under use_roi: feat_roi after it, and whether
\* an exception leaves it.  The detector gives a box or None; cropping and
\* encoding the box gives img.feat_box, NoFeat standing for an exception,
\* which the handler of lines 234-236 turns into feat_roi = None.
detected_region(img) ==
  IF img.use_roi /\ img.box
    THEN [raised |-> FALSE, feat_roi |-> img.feat_box]
    ELSE [raised |-> FALSE, feat_roi |-> NoFeat]

\* no step of the region path taken
NoSteps == [detect_none |-> FALSE, box_failed |-> FALSE,
            crop_tried |-> FALSE, crop_failed |-> FALSE, fused |-> FALSE]

\* extract_features for a picture img: opens (Image.open succeeds),
\* region_weight (the environment), feat_full (the normalized full-image
\* embedding, NoFeat when encoding raises), use_roi (CAB_ROI_DETECT), box
\* (the detector returns a box), feat_box (the normalized embedding of the
\* box), feat_crop (the normalized embedding of the heuristic crop; NoFeat
\* when cropping or encoding raises).  The result with the steps taken:
\*   detect_none  the detector was called and returned None
\*   box_failed   cropping or encoding the detected box raised
\*   crop_tried   the heuristic crop of lines 238-249 was computed
\*   crop_failed  it raised
\*   fused        lines 252-256 were executed
extract_features_steps(img) ==
  LET quiet == NoSteps
      roi   == detected_region(img)
      feat_roi == IF roi.feat_roi = NoFeat THEN img.feat_crop ELSE roi.feat_roi
      steps == [detect_none |-> img.use_roi /\ ~img.box,
                box_failed  |-> img.use_roi /\ img.box /\ img.feat_box = NoFeat,
                crop_tried  |-> ~roi.raised /\ roi.feat_roi = NoFeat,
                crop_failed |-> ~roi.raised /\ roi.feat_roi = NoFeat
                                 /\ img.feat_crop = NoFeat,
                fused       |-> ~roi.raised /\ feat_roi # NoFeat]
  IN  IF ~img.opens THEN [ret |-> ExtractNone, steps |-> quiet]
      ELSE IF img.region_weight.kind = "text" THEN [ret |-> ExtractErr, steps |-> quiet]
      ELSE IF img.feat_full = NoFeat THEN [ret |-> ExtractNone, steps |-> quiet]
      ELSE IF roi.raised THEN [ret |-> ExtractErr, steps |-> steps]
      ELSE IF feat_roi # NoFeat
        THEN [ret |-> Vec(fuse(region_weight(img.region_weight), feat_roi, img.feat_full)),
              steps |-> steps]
        ELSE [ret |-> Vec(img.feat_full), steps |-> steps]

extract_features_image(img) == extract_features_steps(img).ret

\* the normalized embeddings the encoder gives
UnitVecs == {<<Unit, 0>>, <<0, Unit>>, <<0 - Unit, 0>>}

Images ==
  [opens : BOOLEAN,
   region_weight : {EnvUnset, EnvNumber(0), EnvNumber(5), EnvNumber(10),
                    EnvNumber(15), EnvText},
   feat_full : UnitVecs \cup {NoFeat},
   use_roi   : BOOLEAN,
   box       : BOOLEAN,
   feat_box  : {<<0, Unit>>, NoFeat},
   feat_crop : UnitVecs \cup {NoFeat}]

InitExtract ==
  /\ index = IndexFlatIP(feature_dim)
  /\ metadata = <<>>
  /\ index_file = Absent
  /\ metadata_file = Absent
  /\ questions_csv = Catalog0
  /\ images_dir = Dir(<<>>)
  /\ extract = Extract0
  /\ pdf_files = NoPdfFiles
  /\ \E img \in Images :
       last = [op |-> "image", raised |-> FALSE, image |-> img, steps |-> NoSteps]
  /\ ret = None

\* extractor.extract_features(image_path) on the picture at hand
ExtractImage ==
  /\ last.op = "image"
  /\ ret' = extract_features_image(last.image)
  /\ last' = [op |-> "extract", raised |-> ret'.kind = "raise", image |-> last.image,
              steps |-> extract_features_steps(last.image).steps]
  /\ UNCHANGED <<index, metadata, index_file, metadata_file, Env>>

\* add_image with the features just extracted (as rebuild_index does, lines
\* 291-293)
AddExtracted ==
  /\ last.op = "extract"
  /\ ret.kind = "vec"
  /\ LET a == add_image(index, metadata, AJ, <<"1">>, ret.v)
     IN  /\ index' = a.index
         /\ metadata' = a.metadata
         /\ last' = [last EXCEPT !.op = "add", !.raised = a.raised]
  /\ UNCHANGED <<ret, index_file, metadata_file, Env>>

NextExtract == ExtractImage \/ AddExtracted

SpecExtract == InitExtract /\ [][NextExtract]_vars

\* length 1 up to the rounding of the fixed-point numbers
IsUnit(v) ==
  /\ Dot(v, v) >= (Unit - 1) * (Unit - 1)
  /\ Dot(v, v) <= (Unit + 1) * (Unit + 1)

\* C17: every vector extract returns (the full-image embedding alone, or the
\* fusion for every alpha in [0, 1]) has length 1 within tolerance, add
\* stores it unchanged, and so every vector stored in the index has length 1.
C17_StoredVectorsUnit ==
  /\ (last.op = "extract" /\ ret.kind = "vec") => IsUnit(ret.v)
  /\ (last.op = "add" /\ ~last.raised) => index.xb[ntotal(index)].v = ret.v
  /\ last.op \in {"extract", "add"} =>
       \A i \in 1..ntotal(index) : IsUnit(index.xb[i].v)

(***************************************************************************)
(* PDFWatermarker.add_watermark, in its three versions:                    *)
(*   src/semoPDFwatermark/watermark.py   (add_watermark_package)           *)
(*   src/watermark.py                    (add_watermark_flat)              *)
(*   src/semoPDFwatermark.py             (add_watermark_module)            *)
(* A request req: input (path), output_given and output (the caller's      *)
(* output path), text, write_ok (the output file can be opened and         *)
(* written).  A result: the files after the call, the value returned and   *)
(* the exception raised ("" when none).                                    *)
(***************************************************************************)
\* variant: the watermark merged twice into the page
merge_page_twice(page, text) == [page EXCEPT !.marks = @ \o <<text, text>>]

\* page.merge_page(watermark_page)
merge_page(page, text) == [page EXCEPT !.marks = Append(@, text)]

\* file_name + "_watermarked" + file_ext of os.path.splitext(input_pdf_path)
default_output_path(input_pdf_path) ==
  SplitExt(input_pdf_path)[1] \o <<"_watermarked">> \o SplitExt(input_pdf_path)[2]

ReturnPath(path)   == [kind |-> "path", path |-> path]
ReturnEncrypted    == [kind |-> "ENCRYPTED_PDF", path |-> <<>>]
ReturnBool(b)      == [kind |-> IF b THEN "True" ELSE "False", path |-> <<>>]
NoReturn           == [kind |-> "none", path |-> <<>>]

Outcome(files, returned, raised) ==
  [files |-> files, returned |-> returned, raised |-> raised]

\* the loop over the pages and the write of the output file
WriteWatermarked(files, pages, text, output_pdf_path) ==
  [files EXCEPT ![output_pdf_path] =
     Pdf([i \in 1..Len(pages) |-> merge_page(pages[i], text)])]

\* src/semoPDFwatermark/watermark.py, lines 193-267
add_watermark_package(files, req) ==
  LET input  == files[req.input]
      output == IF req.output_given THEN req.output
                ELSE default_output_path(req.input)
  IN  IF input.kind = "absent" THEN Outcome(files, NoReturn, "FileNotFoundError")
      ELSE IF input.kind = "garbage" THEN Outcome(files, NoReturn, "PdfReadError")
      ELSE IF input.encrypted THEN Outcome(files, ReturnEncrypted, "")
      ELSE IF ~req.write_ok THEN Outcome(files, NoReturn, "OSError")
      ELSE Outcome(WriteWatermarked(files, input.pages, req.text, output),
                   ReturnPath(output), "")

\* src/watermark.py, lines 78-125: no check for encryption, reading the pages
\* of an encrypted file raises
add_watermark_flat(files, req) ==
  LET input  == files[req.input]
      output == IF req.output_given THEN req.output
                ELSE default_output_path(req.input)
  IN  IF input.kind = "absent" THEN Outcome(files, NoReturn, "FileNotFoundError")
      ELSE IF input.kind = "garbage" \/ input.encrypted
           THEN Outcome(files, NoReturn, "PdfReadError")
      ELSE IF ~req.write_ok THEN Outcome(files, NoReturn, "OSError")
      ELSE Outcome(WriteWatermarked(files, input.pages, req.text, output),
                   ReturnPath(output), "")

\* src/semoPDFwatermark.py, lines 98-199: output_pdf is a required
\* parameter; True or False is returned; the handler of lines 186-195
\* removes whatever is at the output path
add_watermark_module(files, req) ==
  LET input   == files[req.input]
      removed == [files EXCEPT ![req.output] = PdfAbsent]
  IN  IF ~req.output_given THEN Outcome(files, NoReturn, "TypeError")
      ELSE IF input.kind = "absent" THEN Outcome(files, ReturnBool(FALSE), "")
      ELSE IF input.kind = "garbage" \/ input.encrypted
           THEN Outcome(removed, ReturnBool(FALSE), "")
      ELSE IF input.pages = <<>> THEN Outcome(files, ReturnBool(FALSE), "")
      ELSE IF ~req.write_ok THEN Outcome(removed, ReturnBool(FALSE), "")
      ELSE Outcome(WriteWatermarked(files, input.pages, req.text, req.output),
                   ReturnBool(TRUE), "")

WatermarkRequests ==
  [input : {DP, DNoExt}, output_given : BOOLEAN, output : {OP, DP},
   text : {"W"}, write_ok : BOOLEAN]

\* the input has room for one more watermark
MarksBelow(file, n) == \A i \in 1..Len(file.pages) : Len(file.pages[i].marks) < n

InitWatermark ==
  /\ InitIndex
  /\ questions_csv = Catalog0
  /\ images_dir = Dir(<<>>)
  /\ extract = Extract0
  /\ \E d \in {PdfAbsent, PdfGarbage, PdfEncrypted(NewPages(1))}
                \cup {Pdf(NewPages(n)) : n \in 0..MaxPages},
        e \in {PdfAbsent, Pdf(NewPages(1))} :
       pdf_files = [NoPdfFiles EXCEPT ![DP] = d, ![DNoExt] = e]

AddWatermark(impl, o, req) ==
  /\ pdf_files' = o.files
  /\ ret' = o.returned
  /\ last' = [op |-> "add_watermark", impl |-> impl, raised |-> o.raised # "",
              why |-> o.raised, req |-> req]
  /\ UNCHANGED <<index, metadata, index_file, metadata_file,
                 questions_csv, images_dir, extract>>

AddWatermarkPackage ==
  \E req \in WatermarkRequests :
    /\ MarksBelow(pdf_files[req.input], MaxMarks)
    /\ AddWatermark("package", add_watermark_package(pdf_files, req), req)

AddWatermarkFlat ==
  \E req \in WatermarkRequests :
    /\ MarksBelow(pdf_files[req.input], MaxMarks)
    /\ AddWatermark("flat", add_watermark_flat(pdf_files, req), req)

AddWatermarkModule ==
  \E req \in WatermarkRequests :
    /\ MarksBelow(pdf_files[req.input], MaxMarks)
    /\ AddWatermark("module", add_watermark_module(pdf_files, req), req)

NextWatermark == AddWatermarkPackage \/ AddWatermarkFlat \/ AddWatermarkModule

SpecWatermark == InitWatermark /\ [][NextWatermark]_vars

\* the path with "_watermarked" put before its extension (before the last
\* dot that has a name in front of it), at the end when there is none
WatermarkedName(path) ==
  LET dot == RFind(path, ".")
  IN  IF dot > 1
      THEN SubSeq(path, 1, dot - 1) \o <<"_watermarked">> \o SubSeq(path, dot, Len(path))
      ELSE path \o <<"_watermarked">>

C19_MissingInputRaises ==
  [][(last'.op = "add_watermark" /\ pdf_files[last'.req.input].kind = "absent") =>
       /\ last'.raised
       /\ last'.why = "FileNotFoundError"
       /\ ret' = NoReturn
       /\ pdf_files' = pdf_files]_vars

(***************************************************************************)
(* _detect_symbol_roi_top_left (src/cab/feature_extractor.py, lines        *)
(* 64-125).  A picture is given by its size H x W, by whether the          *)
(* conversion and the OpenCV calls on it succeed, and by the bounding      *)
(* rectangles (x, y, w, h) of the contours found in its search window.     *)
(* search_ratio is held in hundredths, min_area_frac in thousandths.       *)
(***************************************************************************)
RoiNone            == [kind |-> "none", box |-> <<>>]
RoiBox(l, t, r, b) == [kind |-> "box", box |-> <<l, t, r, b>>]
RoiRaise           == [kind |-> "raise", box |-> <<>>]

\* float(os.environ.get(name, default)) and int(os.environ.get(name,
\* default)) of lines 72-75: the default when the variable is not set, the
\* number when it parses, an exception when it does not
EnvParses(v) == v.kind # "text"
EnvValue(v, default) == IF v.kind = "unset" THEN default ELSE v.tenths

\* lines 95-111: the candidate of the highest score among the rectangles that
\* are large enough, the earlier one on equal scores; <<>> when there is
\* none.  Scores are held in tenths: area - 0.1 * (x + y).
RECURSIVE BestRect(_, _, _, _)
BestRect(contours, min_area, best_rect, best_area) ==
  IF contours = <<>> THEN best_rect
  ELSE LET c     == Head(contours)
           area  == c.w * c.h
           score == 10 * area - (c.x + c.y)
       IN  IF area < min_area
             THEN BestRect(Tail(contours), min_area, best_rect, best_area)
           ELSE IF score > best_area
             THEN BestRect(Tail(contours), min_area, <<c>>, score)
           ELSE BestRect(Tail(contours), min_area, best_rect, best_area)

\* lines 72-122, the statements under try: RoiRaise where one of them raises
RoiBody(image, env) ==
  IF ~EnvParses(env.search_ratio) THEN RoiRaise
  ELSE IF ~EnvParses(env.min_area_frac) THEN RoiRaise
  ELSE IF ~EnvParses(env.pad) THEN RoiRaise
  ELSE IF ~image.cv_ok THEN RoiRaise
  ELSE IF image.contours = <<>> THEN RoiNone
  ELSE
    LET min_area_frac == EnvValue(env.min_area_frac, 1)
        pad           == EnvValue(env.pad, 8)
        full_area     == image.H * image.W
        best == BestRect(image.contours,
                         Max(50, (full_area * min_area_frac) \div 1000),
                         <<>>, 0)
    IN  IF best = <<>> THEN RoiNone
        ELSE LET c == best[1]
             IN  RoiBox(Max(0, c.x - pad), Max(0, c.y - pad),
                        Min(image.W, c.x + c.w + pad),
                        Min(image.H, c.y + c.h + pad))

\* the function with the reading of the environment placed before try
detect_env_before_try(image, env) ==
  IF \/ ~EnvParses(env.search_ratio)
     \/ ~EnvParses(env.min_area_frac)
     \/ ~EnvParses(env.pad)
    THEN RoiRaise
  ELSE IF RoiBody(image, env).kind = "raise" THEN RoiNone
  ELSE RoiBody(image, env)

\* lines 71-125: try: the body; except Exception: log a warning, return None
_detect_symbol_roi_top_left(image, env) ==
  IF RoiBody(image, env).kind = "raise" THEN RoiNone ELSE RoiBody(image, env)

\* lines 73 and 78: the search window of the picture, sw x sh
SearchWindow(image, env) ==
  LET search_ratio == Max(40, Min(95, EnvValue(env.search_ratio, 70)))
  IN  [sw |-> (image.W * search_ratio) \div 100,
       sh |-> (image.H * search_ratio) \div 100]

RoiSide == 20
RoiWide == 2000

\* a large mark at the corner, a larger one a little inside, a mark that
\* fits the smallest search window, a speck, and a mark far to the right of
\* a wide picture
RoiRects ==
  {[x |-> 0, y |-> 0, w |-> 10, h |-> 6],
   [x |-> 2, y |-> 1, w |-> 8, h |-> 8],
   [x |-> 0, y |-> 0, w |-> 8, h |-> 7],
   [x |-> 4, y |-> 4, w |-> 5, h |-> 2],
   [x |-> 600, y |-> 0, w |-> 10, h |-> 5]}

RoiContours ==
  {<<>>} \cup {<<a>> : a \in RoiRects}
         \cup {<<a, b>> : a \in RoiRects, b \in RoiRects}

RoiImages ==
  [H : {RoiSide}, W : {RoiSide, RoiWide}, cv_ok : BOOLEAN, contours : RoiContours]

\* CAB_ROI_SEARCH_RATIO, CAB_ROI_MIN_AREA_FRAC, CAB_ROI_PAD
RoiEnvs ==
  [search_ratio  : {EnvUnset, EnvNumber(20), EnvNumber(60), EnvText},
   min_area_frac : {EnvUnset, EnvNumber(150), EnvNumber(200), EnvText},
   pad           : {EnvUnset, EnvNumber(0), EnvNumber(0 - 3), EnvText}]

InitRoi ==
  /\ index = IndexFlatIP(feature_dim)
  /\ metadata = <<>>
  /\ index_file = Absent
  /\ metadata_file = Absent
  /\ questions_csv = Catalog0
  /\ images_dir = Dir(<<>>)
  /\ extract = Extract0
  /\ pdf_files = NoPdfFiles
  /\ \E image \in RoiImages, env \in RoiEnvs :
       /\ \A i \in 1..Len(image.contours) :
            /\ image.contours[i].x + image.contours[i].w <= SearchWindow(image, env).sw
            /\ image.contours[i].y + image.contours[i].h <= SearchWindow(image, env).sh
       /\ last = [op |-> "roi_image", raised |-> FALSE, failure |-> FALSE,
                  image |-> image, env |-> env]
  /\ ret = RoiNone

\* box = _detect_symbol_roi_top_left(image), as extract_features (line 224)
\* and compute_orb_similarity (line 338) call it
DetectRoi ==
  /\ last.op = "roi_image"
  /\ ret' = _detect_symbol_roi_top_left(last.image, last.env)
  /\ last' = [last EXCEPT !.op = "roi",
                          !.raised = (ret'.kind = "raise"),
                          !.failure = (RoiBody(last.image, last.env).kind = "raise")]
  /\ UNCHANGED <<index, metadata, index_file, metadata_file, Env>>

NextRoi == DetectRoi

SpecRoi == InitRoi /\ [][NextRoi]_vars

\* C20: the ROI detector never propagates an exception: for every picture
\* and every value of its three configuration variables, a value no number
\* can be read from included, the call returns, and it returns None whenever
\* a statement of the detection failed.
C20_RoiNeverRaises ==
  last.op = "roi" =>
    /\ ~last.raised
    /\ ret.kind \in {"none", "box"}
    /\ last.failure => ret = RoiNone

\* a detection on a configuration variable that does not parse has returned
C20_Witness ==
  /\ last.op = "roi"
  /\ last.failure
  /\ ~EnvParses(last.env.pad)
  /\ last.image.cv_ok
  /\ ret = RoiNone

\* C21: a box the ROI detector returns for a picture of width W and height
\* H lies inside the picture and is not empty: 0 <= left < right <= W and
\* 0 <= top < bottom <= H, for every padding and every search ratio.
C21_BoxInsideNonEmpty ==
  (last.op = "roi" /\ ret.kind = "box") =>
    /\ 0 <= ret.box[1] /\ ret.box[1] < ret.box[3] /\ ret.box[3] <= last.image.W
    /\ 0 <= ret.box[2] /\ ret.box[2] < ret.box[4] /\ ret.box[4] <= last.image.H

\* the positions of the contours that pass the area filter of line 102
Survivors(image, env) ==
  {i \in 1..Len(image.contours) :
     image.contours[i].w * image.contours[i].h >=
       Max(50, (image.H * image.W * EnvValue(env.min_area_frac, 1)) \div 1000)}

\* area - 0.1 * (x + y), in tenths
RectScore(c) == 10 * c.w * c.h - (c.x + c.y)

\* the padded, clamped box of a rectangle (lines 117-122)
PaddedBox(image, env, c) ==
  RoiBox(Max(0, c.x - EnvValue(env.pad, 8)), Max(0, c.y - EnvValue(env.pad, 8)),
         Min(image.W, c.x + c.w + EnvValue(env.pad, 8)),
         Min(image.H, c.y + c.h + EnvValue(env.pad, 8)))

\* C22: among the contour rectangles of area at least
\* max(50, min_area_frac * full area) the detector picks one of maximum
\* score area - 0.1 * (x + y); it returns None only when no rectangle
\* passes the filter, and a box whenever one does.
C22_MaxScoreSurvivorPicked ==
  (last.op = "roi" /\ ~last.failure) =>
    LET S == Survivors(last.image, last.env)
    IN  /\ (ret = RoiNone) <=> (S = {})
        /\ S # {} =>
             \E i \in S :
               /\ \A j \in S : RectScore(last.image.contours[i])
                                 >= RectScore(last.image.contours[j])
               /\ ret = PaddedBox(last.image, last.env, last.image.contours[i])

\* C23: extract returns None exactly when the picture cannot be opened or
\* the full-image encoding raises; a detection that gives no box, an
\* exception while encoding the detected region and an exception in the
\* heuristic crop never make it return None or raise: a vector is returned.
C23_NoneOnlyForFullImage ==
  last.op = "extract" =>
    /\ (ret = ExtractNone) <=>
         \/ ~last.image.opens
         \/ /\ last.image.region_weight.kind # "text"
            /\ last.image.feat_full = NoFeat
    /\ (last.steps.detect_none \/ last.steps.box_failed \/ last.steps.crop_failed)
         => ret.kind = "vec"

\* the detected region and the heuristic crop both failed and the
\* full-image embedding came back
C23_Witness ==
  /\ last.op = "extract"
  /\ last.steps.box_failed
  /\ last.steps.crop_failed
  /\ ret = Vec(last.image.feat_full)

\* C24: when the detector returns a box and cropping or embedding that
\* region raises, no other region embedding is computed, fusion is skipped
\* and extract returns the full-image embedding unmodified.
C24_BoxFailureSkipsFusion ==
  (last.op = "extract" /\ last.steps.box_failed) =>
    /\ ~last.steps.crop_tried
    /\ ~last.steps.fused
    /\ ret = Vec(last.image.feat_full)

(***************************************************************************)
(* ImageFeatureExtractor.compute_orb_similarity (src/cab/feature_extractor *)
(* .py, lines 323-371).  A pair of pictures is given by what the steps     *)
(* make of it: whether opening, cutting the regions or an OpenCV call      *)
(* raises, the numbers k1 and k2 of keypoints, and for every descriptor of *)
(* the query its two nearest candidates (distances m and n).  Scores are   *)
(* held in thousandths, CAB_ORB_RATIO in hundredths.                       *)
(***************************************************************************)
MaxKeypoints == 12

\* a near match, a doubtful one, and one as far as its runner-up
KnnNear == [m |-> 30, n |-> 100]
KnnFair == [m |-> 80, n |-> 100]
KnnFar  == [m |-> 100, n |-> 100]

\* matcher.knnMatch(d1, d2, k=2): one pair per descriptor of the query, the
\* first near of them near matches, the next fair doubtful ones
Knn(k1, near, fair) ==
  [i \in 1..k1 |-> IF i <= near THEN KnnNear
                   ELSE IF i <= near + fair THEN KnnFair ELSE KnnFar]

\* lines 360-363: the matches that pass Lowe's ratio test
Good(knn, ratio) ==
  SelectSeq(knn, LAMBDA p : p.m * 100 < ratio * p.n)

\* lines 366-367 without the bound of 1.0
orb_score_unbounded(good, k1, k2) == (good * 1000) \div Max(1, Min(k1, k2))

\* lines 366-367: score = min(1.0, len(good) / max(1, min(len(k1), len(k2))))
orb_score(good, k1, k2) ==
  Min(1000, (good * 1000) \div Max(1, Min(k1, k2)))

\* lines 330-371; descriptors are None exactly when no keypoint was found
compute_orb_similarity(pair) ==
  IF pair.raises THEN 0
  ELSE IF ~EnvParses(pair.nfeatures) THEN 0
  ELSE IF pair.k1 = 0 \/ pair.k2 = 0 \/ pair.k1 < 10 \/ pair.k2 < 10 THEN 0
  ELSE IF ~EnvParses(pair.ratio) THEN 0
  ELSE LET good == Good(Knn(pair.k1, pair.near, pair.fair),
                        EnvValue(pair.ratio, 75))
       IN  IF good = <<>> THEN 0
           ELSE orb_score(Len(good), pair.k1, pair.k2)

OrbPairs ==
  {p \in [raises : BOOLEAN,
          nfeatures : {EnvUnset, EnvText},
          ratio : {EnvUnset, EnvNumber(90), EnvNumber(0), EnvText},
          k1 : {0, 9, 10, MaxKeypoints},
          k2 : {0, 9, 10, MaxKeypoints},
          near : {0, 3, MaxKeypoints},
          fair : {0, 2}] : p.near + p.fair <= p.k1}

InitOrb ==
  /\ index = IndexFlatIP(feature_dim)
  /\ metadata = <<>>
  /\ index_file = Absent
  /\ metadata_file = Absent
  /\ questions_csv = Catalog0
  /\ images_dir = Dir(<<>>)
  /\ extract = Extract0
  /\ pdf_files = NoPdfFiles
  /\ \E pair \in OrbPairs : last = [op |-> "pair", raised |-> FALSE, pair |-> pair]
  /\ ret = [kind |-> "score", value |-> 0]

\* extractor.compute_orb_similarity(query_image_path, candidate_image_path)
ComputeOrb ==
  /\ last.op = "pair"
  /\ ret' = [kind |-> "score", value |-> compute_orb_similarity(last.pair)]
  /\ last' = [last EXCEPT !.op = "orb"]
  /\ UNCHANGED <<index, metadata, index_file, metadata_file, Env>>

NextOrb == ComputeOrb

SpecOrb == InitOrb /\ [][NextOrb]_vars

\* the number of pairs of the call that pass the ratio test
GoodMatches(pair) ==
  Cardinality({i \in 1..pair.k1 :
     Knn(pair.k1, pair.near, pair.fair)[i].m * 100
       < EnvValue(pair.ratio, 75) * Knn(pair.k1, pair.near, pair.fair)[i].n})

\* C25: the local-descriptor similarity of a pair of pictures is a number in
\* [0, 1]: 0.0 when either picture gives fewer than 10 keypoints or no
\* descriptors, when no match passes the ratio test or when an exception
\* occurs, and min(1.0, good matches / min(keypoints of the query,
\* keypoints of the candidate)) otherwise.
C25_OrbScoreInUnitRange ==
  last.op = "orb" =>
    /\ 0 <= ret.value /\ ret.value <= 1000
    /\ IF \/ last.pair.raises
          \/ ~EnvParses(last.pair.nfeatures)
          \/ last.pair.k1 < 10 \/ last.pair.k2 < 10
          \/ ~EnvParses(last.pair.ratio)
          \/ GoodMatches(last.pair) = 0
         THEN ret.value = 0
         ELSE ret.value = Min(1000, (GoodMatches(last.pair) * 1000)
                                      \div Min(last.pair.k1, last.pair.k2))

\* more good matches than the smaller picture has keypoints: the bound of
\* 1.0 applies
C25_Witness ==
  /\ last.op = "orb"
  /\ ~last.pair.raises
  /\ GoodMatches(last.pair) > Min(last.pair.k1, last.pair.k2)
  /\ ret.value = 1000

(***************************************************************************)
(* save_index of one ImageIndex instance against load_index of another on  *)
(* the same two files (src/cab/image_index.py, lines 85-123), statement by *)
(* statement.  index and metadata are the fields of the loading instance;  *)
(* last.saver holds the fields of the saving one.  A file opened for       *)
(* writing is incomplete (Corrupt) until its write has finished.  The      *)
(* loader notes how far the saver was (file_no: the file it writes next)   *)
(* at each of its two reads, and whether it took the except branch.        *)
(***************************************************************************)
\* the order of the writes with the metadata first
SaveOrderMetadataFirst == <<"metadata", "index">>

\* lines 113 and 116-117: faiss.write_index, then open and pickle.dump
SaveOrder == <<"index", "metadata">>

\* the instances of the bounds: what the add_image calls of a sequence build
RaceInstances ==
  {AddAll(cs) : cs \in SeqsUpTo({c \in AddCalls : Len(c[3]) = feature_dim}, MaxVecs)}

InitRace ==
  /\ index = IndexFlatIP(feature_dim)
  /\ metadata = <<>>
  /\ questions_csv = Catalog0
  /\ images_dir = Dir(<<AP, BJ>>)
  /\ extract = Extract0
  /\ pdf_files = NoPdfFiles
  /\ \E old \in RaceInstances, new \in RaceInstances :
       /\ index_file = Saved(old)[1]
       /\ metadata_file = Saved(old)[2]
       /\ last = [op |-> "race", raised |-> FALSE,
                  old    |-> old,
                  saver  |-> [index |-> new.index, metadata |-> new.metadata,
                              file_no |-> 1, open |-> FALSE],
                  loader |-> [pc |-> "start", failed |-> FALSE,
                              at_index |-> 0, at_metadata |-> 0]]
  /\ ret = None

\* the saver opens the next file of save_index for writing
SaveOpen ==
  /\ last.op = "race"
  /\ last.saver.file_no <= Len(SaveOrder)
  /\ ~last.saver.open
  /\ IF SaveOrder[last.saver.file_no] = "index"
       THEN index_file' = Corrupt /\ UNCHANGED metadata_file
       ELSE metadata_file' = Corrupt /\ UNCHANGED index_file
  /\ last' = [last EXCEPT !.saver.open = TRUE]
  /\ UNCHANGED <<index, metadata, ret, Env>>

\* the write of that file finishes
SaveWrite ==
  /\ last.op = "race"
  /\ last.saver.open
  /\ LET sv == save_index(last.saver.index, last.saver.metadata,
                          index_file, metadata_file, "ok", "kept")
     IN  IF SaveOrder[last.saver.file_no] = "index"
           THEN index_file' = sv.index_file /\ UNCHANGED metadata_file
           ELSE metadata_file' = sv.metadata_file /\ UNCHANGED index_file
  /\ last' = [last EXCEPT !.saver.open = FALSE, !.saver.file_no = @ + 1]
  /\ UNCHANGED <<index, metadata, ret, Env>>

\* the except branch of load_index (lines 103-107)
LoadFailed ==
  /\ index' = IndexFlatIP(feature_dim)
  /\ metadata' = <<>>
  /\ last' = [last EXCEPT !.loader.pc = "done", !.loader.failed = TRUE]

\* line 88: both files exist (they do, once saved)
LoadExists ==
  /\ last.op = "race"
  /\ last.loader.pc = "start"
  /\ IF index_file.state # "absent" /\ metadata_file.state # "absent"
       THEN /\ last' = [last EXCEPT !.loader.pc = "checked"]
            /\ UNCHANGED <<index, metadata>>
       ELSE LoadFailed
  /\ UNCHANGED <<index_file, metadata_file, ret, Env>>

\* line 90: faiss.read_index
LoadReadIndex ==
  /\ last.op = "race"
  /\ last.loader.pc = "checked"
  /\ IF index_file.state = "ok"
       THEN /\ index' = read_index(index_file)
            /\ last' = [last EXCEPT !.loader.pc = "index_read",
                                    !.loader.at_index = last.saver.file_no]
            /\ UNCHANGED metadata
       ELSE LoadFailed
  /\ UNCHANGED <<index_file, metadata_file, ret, Env>>

\* lines 93-94: pickle.load
LoadReadMetadata ==
  /\ last.op = "race"
  /\ last.loader.pc = "index_read"
  /\ IF metadata_file.state = "ok"
       THEN /\ metadata' = PickleLoad(metadata_file)
            /\ last' = [last EXCEPT !.loader.pc = "done",
                                    !.loader.at_metadata = last.saver.file_no]
            /\ UNCHANGED index
       ELSE LoadFailed
  /\ UNCHANGED <<index_file, metadata_file, ret, Env>>

NextRace == SaveOpen \/ SaveWrite \/ LoadExists \/ LoadReadIndex \/ LoadReadMetadata

SpecRace == InitRace /\ [][NextRace]_vars

\* C26: save writes the index file first and the metadata file second,
\* without locking, so a load by another instance on the same two files
\* that does not fail holds the vectors saved last before its first read
\* and the metadata saved last before its second read: the new vectors once
\* the first write of the save is over, the new metadata only once the
\* second is.  A loader that runs between the two writes ends with the
\* newly saved vectors and the previously saved metadata, its vector count
\* differing from its metadata count.
C26_TornLoad ==
  (last.op = "race" /\ last.loader.pc = "done") =>
    IF last.loader.failed
      THEN index = IndexFlatIP(feature_dim) /\ metadata = <<>>
      ELSE /\ index = IF last.loader.at_index >= 2
                        THEN last.saver.index ELSE last.old.index
           /\ metadata = IF last.loader.at_metadata >= 3
                           THEN last.saver.metadata ELSE last.old.metadata

\* a load between the two writes: the loader holds the new vectors with the
\* old metadata, and they differ in number
C26_Witness ==
  /\ last.op = "race"
  /\ last.loader.pc = "done"
  /\ ~last.loader.failed
  /\ last.loader.at_index = 2
  /\ last.loader.at_metadata = 2
  /\ index = last.saver.index
  /\ metadata = last.old.metadata
  /\ ntotal(index) # Len(metadata)
  /\ ntotal(index) > 0
  /\ Len(metadata) > 0

\* C27: search returns an empty list only when the index holds no vectors:
\* after any sequence of add, remove and rebuild, for an index with at least
\* one vector and every top_k >= 1 the returned list is not empty.
C27_EmptyOnlyForEmptyIndex ==
  (last.op = "search" /\ ntotal(index) >= 1) => ret # <<>>

\* C28: in every list search returns the element at position k (from 1) has
\* rank k: the ranks are 1..n without gaps or repeats, after any sequence of
\* add, remove and rebuild.
C28_RankIsPosition ==
  last.op = "search" => \A k \in 1..Len(ret) : ret[k].rank = k

\* C29: if rebuild raises, for whatever reason, the index and the metadata
\* of the instance and the two persisted files are exactly as they were
\* before the call.
C29_FailedRebuildChangesNothing ==
  [][(last'.op = "rebuild" /\ last'.raised) =>
       UNCHANGED <<index, metadata, index_file, metadata_file>>]_vars

\* C30: in the operator test tool, for every setting of CAB_SCORE_TEMP, the
\* temperature the calibrated confidences are computed with is the
\* configured value bounded to [0.001, 5.0], and the temperature printed
\* next to each result equals the temperature used.
C30_ReportedTempIsUsedTemp ==
  (last.op = "test" /\ last.printed.lines > 0) =>
    /\ last.score_temp.kind = "number" =>
         last.printed.temp_used = Max(1, Min(5000, last.score_temp.tenths))
    /\ last.printed.temp_reported = last.printed.temp_used

====
